---- MODULE Spec2Model ----
(***************************************************************************)
(* Model of the log store of mcp_agent_memory/app.py: the memory file, the *)
(* advisory flock on it, and the four file operations init_memory_file,    *)
(* read_memory_file, append_to_memory_file and get_file_stats, each split  *)
(* at the points where another process or thread can interleave.           *)
(*                                                                         *)
(* The file is a sequence of characters (one-character strings).  A write  *)
(* reaches the file through Python's buffered writer: one raw write may be *)
(* short, and a raw write, an open or a flock may raise OSError.           *)
(*                                                                         *)
(* In front of the store stand the rate limiter (check_rate_limit over     *)
(* rate_limit_store) and the two admission gates, verify_api_key of the    *)
(* REST endpoints and APIKeyAuthMiddleware.dispatch of the MCP endpoint.   *)
(***************************************************************************)
EXTENDS Integers, Sequences, FiniteSets, TLC

\* ------------------------------------------------------------------ bounds

\* Number of execution contexts (threads or processes) sharing the file.
NumProcs == 2
\* Number of append_to_memory_file calls in one behaviour.
MaxAppends == 2
\* Number of read_memory_file calls in one behaviour.
MaxReads == 1
\* Number of read_memory_file calls in one behaviour of the readers'
\* specification.
MaxReaders == 2
\* Number of get_file_stats calls in one behaviour.
MaxStats == 1
\* The store's clock runs from 0 to MaxClock.
MaxClock == 1
\* Number of OSErrors the operating system raises in one behaviour.
MaxFaults == 1
\* A short raw write stores this many characters of the pending buffer.
ShortWrite == 4
\* Number of client addresses.
NumIds == 2
\* RATE_LIMIT_REQUESTS is configured from 0 to MaxLimit.
MaxLimit == 2
\* RATE_LIMIT_WINDOW is configured from 1 to MaxWindow seconds.
MaxWindow == 2
\* time.time() runs from 0 to MaxTime.
MaxTime == 3
\* Number of check_rate_limit calls in one behaviour.
MaxCalls == 4
\* Number of HTTP requests in one behaviour.
MaxRequests == 2
\* Number of backups older than the retention period at a destination.
MaxOld == 2
\* Number of commands of the backup program in one behaviour.
MaxJobs == 2

\* MAX_RULE_SIZE, scaled down from its default of 10000.
MAX_RULE_SIZE == 3

Procs == 1..NumProcs

\* The client addresses (request.client.host).
Ids == 1..NumIds

\* The requests, numbered as they arrive.
Reqs == 1..MaxRequests

\* ------------------------------------------------------------ characters

\* A character that UTF-8 encodes in two bytes (U+00E9).
TwoByteChar == "E9"

\* str.strip() removes these from both ends.
Whitespace == {" ", "\t", "\n", "\r"}

\* The bodies the callers send.  Accepted, both exactly at the limit: one
\* padded, with two multi-byte characters (five bytes); one with an embedded
\* carriage return.  Rejected: empty; whitespace only and over the limit;
\* padded, over the limit raw and within it trimmed.
Bodies ==
  { <<" ", TwoByteChar, TwoByteChar>>,
    <<"x", "\r", "y">>,
    <<>>,
    <<" ", " ", " ", " ">>,
    <<" ", "x", "x", " ">> }

\* len(s.encode("utf-8"))
RECURSIVE Utf8Len(_)
Utf8Len(s) ==
  IF s = <<>> THEN 0
  ELSE (IF Head(s) = TwoByteChar THEN 2 ELSE 1) + Utf8Len(Tail(s))

RECURSIVE LStrip(_)
LStrip(s) ==
  IF s # <<>> /\ Head(s) \in Whitespace THEN LStrip(Tail(s)) ELSE s

RECURSIVE RStrip(_)
RStrip(s) ==
  IF s # <<>> /\ s[Len(s)] \in Whitespace
  THEN RStrip(SubSeq(s, 1, Len(s) - 1))
  ELSE s

\* rule.strip()
Strip(s) == RStrip(LStrip(s))

\* The emptiness check without the strip.
IsBlank_NoStrip(s) == s = <<>>

\* not rule or not rule.strip()
IsBlank(s) == s = <<>> \/ Strip(s) = <<>>

\* The size check with >= for >.
TooLong_OffByOne(s) == Len(s) >= MAX_RULE_SIZE

\* A size check on the trimmed body.
TooLong_Trimmed(s) == Len(Strip(s)) > MAX_RULE_SIZE

\* The size check of append_to_memory_file: len(rule) counts characters.
TooLong(s) == Len(s) > MAX_RULE_SIZE

Digits == <<"0", "1", "2", "3", "4", "5", "6", "7", "8", "9">>

\* datetime.now().isoformat(): the clock reading as text.
IsoFormat(t) == <<Digits[t + 1]>>

\* f"\n- [{timestamp}] {rule.strip()}"
FormatRule(t, s) ==
  <<"\n", "-", " ", "[">> \o IsoFormat(t) \o <<"]", " ">> \o Strip(s)

HEADER ==
  <<"#", " ", "A", "g", "e", "n", "t", " ",
    "M", "e", "m", "o", "r", "y", "\n", "\n">>

\* f"- System initialized on {datetime.now().isoformat()}\n"
InitLine(t) ==
  <<"-", " ", "S", "y", "s", "t", "e", "m", " ",
    "i", "n", "i", "t", "i", "a", "l", "i", "z", "e", "d", " ",
    "o", "n", " ">> \o IsoFormat(t) \o <<"\n">>

\* What init_memory_file writes.
InitialContent(t) == HEADER \o InitLine(t)

\* A write of data at offset 0 of a file opened with "w" (no O_APPEND).
OverwriteAtStart(old, data) ==
  IF Len(old) <= Len(data) THEN data
  ELSE data \o SubSeq(old, Len(data) + 1, Len(old))

\* f.read() of a file opened with open(path, "r"): universal newlines, so
\* "\r\n" and a lone "\r" come back as "\n".
RECURSIVE UniversalNewlines(_)
UniversalNewlines(s) ==
  IF s = <<>> THEN <<>>
  ELSE IF Head(s) = "\r"
    THEN IF Len(s) >= 2 /\ s[2] = "\n"
         THEN <<"\n">> \o UniversalNewlines(Tail(Tail(s)))
         ELSE <<"\n">> \o UniversalNewlines(Tail(s))
    ELSE <<Head(s)>> \o UniversalNewlines(Tail(s))

RECURSIVE CountNewlines(_)
CountNewlines(s) ==
  IF s = <<>> THEN 0
  ELSE (IF Head(s) = "\n" THEN 1 ELSE 0) + CountNewlines(Tail(s))

\* sum(1 for _ in f): the lines of the translated text, a last line without
\* a newline included.
LineCount(s) ==
  LET t == UniversalNewlines(s)
  IN  CountNewlines(t) + (IF t # <<>> /\ t[Len(t)] # "\n" THEN 1 ELSE 0)

\* needle occurs in hay as one contiguous run.
Contains(hay, needle) ==
  \E i \in 0..(Len(hay) - Len(needle)) : SubSeq(hay, i + 1, i + Len(needle)) = needle

IsPrefix(s, t) == Len(s) <= Len(t) /\ SubSeq(t, 1, Len(s)) = s

RECURSIVE Concat(_)
Concat(ss) == IF ss = <<>> THEN <<>> ELSE Head(ss) \o Concat(Tail(ss))

\* ------------------------------------------------------------------ state

VARIABLES
  exists,     \* os.path.exists(FILE_PATH)
  content,    \* the characters of the file
  clock,      \* datetime.now()
  pc,         \* pc[p]: where context p is in its operation
  readFrom,   \* history: appends that had returned success when p's read began
  rule,       \* rule[p]: the argument of p's append
  stamp,      \* stamp[p]: the clock reading of p's append (line 129)
  buf,        \* buf[p]: characters in p's file object, not yet in the file
  lock,       \* lock[p]: the flock p holds: "none", "sh" or "ex"
  statSize,   \* statSize[p]: st_size as p's os.stat saw it
  result,     \* result[p]: what p's last operation returned
  audit,      \* number of audit records of each kind
  written,    \* history: the entries whose last character reached the file,
              \* in that order; ok: by the flush, so that the append succeeds
  wrote,      \* history: characters p's current append put in the file
  created,    \* history: p's current append brought the file into existence
  appendFaulted, \* history: some append met an OSError
  grants,     \* history: the contexts granted the exclusive lock, in that order
  nAppends,   \* append calls so far
  nReads,     \* read calls so far
  nStats,     \* stats calls so far
  faults,     \* OSErrors raised so far
  rate_limit_store,    \* the dict: client address -> admission times
  RATE_LIMIT_REQUESTS, \* the configured limit
  RATE_LIMIT_WINDOW,   \* the configured window, in seconds
  time,       \* time.time()
  calls,      \* history: the check_rate_limit calls that returned, in order
  frame,      \* frame[p]: the locals of p's running check_rate_limit
  req,        \* req[r]: request r, its admission and its answer
  PARENT_FOLDER_ID, \* backup.py: GOOGLE_DRIVE_FOLDER_ID is set
  S3_ENABLED,       \* backup.py: S3_BACKUP_ENABLED is "true"
  S3_AVAILABLE,     \* backup.py: boto3 could be imported
  S3_BUCKET,        \* backup.py: S3_BUCKET is set
  EMAIL_ENABLED,    \* backup.py: EMAIL_BACKUP_ENABLED is "true"
  drive,      \* the ids of the backups in the Drive folder
  bucket,     \* the keys of the backups in the S3 bucket
  job,        \* the backup program: its command, its position, its locals
  nJobs       \* backup commands so far

\* The store and the contexts operating on it.
storeVars ==
  <<exists, content, clock, pc, readFrom, rule, stamp, buf, lock, statSize, result,
    audit, written, wrote, created, appendFaulted, grants, nAppends, nReads,
    nStats, faults>>

\* The backup program (backup.py) is a process of its own: no operation of
\* the server reads or writes its environment, its destinations or its job.
backupEnv ==
  <<PARENT_FOLDER_ID, S3_ENABLED, S3_AVAILABLE, S3_BUCKET, EMAIL_ENABLED>>
backupVars == <<backupEnv, drive, bucket, job, nJobs>>

\* What no operation of the server changes: its configuration, and the
\* backup program.
configVars == <<RATE_LIMIT_REQUESTS, RATE_LIMIT_WINDOW, backupVars>>
limiterVars == <<rate_limit_store, configVars, time, calls, frame>>
serverVars == <<limiterVars, req>>

vars == <<storeVars, serverVars>>

fileVars == <<exists, content>>
appendVars ==
  <<rule, stamp, buf, written, wrote, created, appendFaulted, grants, nAppends>>
appendKept == <<buf, written, appendFaulted, grants, nAppends>>
callVars == <<nReads, nStats>>

\* A context starts operation o: the arguments and locals of its previous
\* operation are gone.
Begin(p, o) ==
  /\ pc[p] = "idle"
  /\ readFrom' = [readFrom EXCEPT ![p] = IF o = "read" THEN audit.WRITE ELSE 0]
  /\ wrote' = [wrote EXCEPT ![p] = 0]
  /\ created' = [created EXCEPT ![p] = FALSE]
  /\ IF o = "append" THEN TRUE
     ELSE /\ rule' = [rule EXCEPT ![p] = <<>>]
          /\ stamp' = [stamp EXCEPT ![p] = 0]
  /\ IF o = "stats" THEN TRUE
     ELSE statSize' = [statSize EXCEPT ![p] = 0]

NoResult == [kind |-> "none", text |-> <<>>, size |-> 0, lines |-> 0]
Returned(k) == [kind |-> k, text |-> <<>>, size |-> 0, lines |-> 0]

\* Whether the operating system lets the next system call succeed.
IoOutcomes == IF faults < MaxFaults THEN {TRUE, FALSE} ELSE {TRUE}

InitCommon ==
  /\ clock = 0
  /\ pc = [p \in Procs |-> "idle"]
  /\ readFrom = [p \in Procs |-> 0]
  /\ rule = [p \in Procs |-> <<>>]
  /\ stamp = [p \in Procs |-> 0]
  /\ buf = [p \in Procs |-> <<>>]
  /\ lock = [p \in Procs |-> "none"]
  /\ statSize = [p \in Procs |-> 0]
  /\ result = [p \in Procs |-> NoResult]
  /\ audit = [REJECTED |-> 0, WRITE |-> 0, WRITE_FAILED |-> 0]
  /\ written = <<>>
  /\ wrote = [p \in Procs |-> 0]
  /\ created = [p \in Procs |-> FALSE]
  /\ appendFaulted = FALSE
  /\ grants = <<>>
  /\ nAppends = 0
  /\ nReads = 0
  /\ nStats = 0
  /\ faults = 0

\* The locals of a check_rate_limit that is not running.
IdleFrame == [pc |-> "idle", ip |-> 0, now |-> 0, kept |-> <<>>]

\* A request that has not arrived.
NoRequest ==
  [stage |-> "new", ep |-> "none", key |-> "none", ip |-> 0, call |-> 0,
   status |-> 0, log |-> "none", ops |-> <<>>]

\* A backup program that is not running, with its locals as run_backup_job
\* initialises them.  id 0 is None.
IdleJob ==
  [pc |-> "idle", cmd |-> "none",
   include_gdrive |-> FALSE, include_s3 |-> FALSE, include_email |-> FALSE,
   file_id |-> 0, gdrive_success |-> FALSE,
   s3_key |-> 0, s3_success |-> FALSE, email_success |-> FALSE,
   ret |-> 0, raised |-> FALSE,
   contacted |-> FALSE, uploaded |-> FALSE, drive0 |-> {}, bucket0 |-> {}]

\* No backup destination is configured and the backup program never runs.
NoBackup ==
  /\ PARENT_FOLDER_ID = FALSE
  /\ S3_ENABLED = FALSE
  /\ S3_AVAILABLE = FALSE
  /\ S3_BUCKET = FALSE
  /\ EMAIL_ENABLED = FALSE
  /\ drive = {}
  /\ bucket = {}
  /\ job = IdleJob
  /\ nJobs = 0

\* The module-level state of a starting server: an empty defaultdict (line
\* 67), nothing running, no request yet.
InitServer ==
  /\ rate_limit_store = [ip \in {} |-> <<>>]
  /\ time = 0
  /\ calls = <<>>
  /\ frame = [p \in Procs |-> IdleFrame]
  /\ req = [r \in Reqs |-> NoRequest]

\* The store on its own: nobody calls the limiter, whose configuration is
\* then of no account.
NoServer ==
  /\ InitServer
  /\ RATE_LIMIT_REQUESTS = MaxLimit
  /\ RATE_LIMIT_WINDOW = MaxWindow
  /\ NoBackup

\* No memory file yet.
Init ==
  /\ exists = FALSE
  /\ content = <<>>
  /\ InitCommon
  /\ NoServer

\* The file as one init_memory_file, run alone at clock 0, leaves it.
InitServing ==
  /\ exists = TRUE
  /\ content = InitialContent(0)
  /\ InitCommon
  /\ NoServer

\* ------------------------------------------------------------------ flock

\* An exclusive lock that waits for nobody.
CanLockEx_NoExclusion(p) == TRUE

\* A shared lock that does not wait for the writer.
CanLockSh_NoWait(p) == TRUE

\* A shared lock that waits for every other lock, the shared ones too.
CanLockSh_Alone(p) == \A q \in Procs \ {p} : lock[q] = "none"

\* fcntl.flock(f, LOCK_EX) returns once no other open file holds a lock.
CanLockEx(p) == \A q \in Procs \ {p} : lock[q] = "none"

\* fcntl.flock(f, LOCK_SH) returns once no other open file holds LOCK_EX.
CanLockSh(p) == \A q \in Procs \ {p} : lock[q] # "ex"

\* ------------------------------------------------- append_to_memory_file

\* An append that raised: the except branch (lines 148-151).
AppendFailed(p) ==
  /\ audit' = [audit EXCEPT !.WRITE_FAILED = @ + 1]
  /\ result' = [result EXCEPT ![p] = Returned("write_error")]
  /\ appendFaulted' = TRUE
  /\ pc' = [pc EXCEPT ![p] = "idle"]

\* The call, its validation, and the timestamp and formatting of an accepted
\* rule (lines 116-130).
AppendCall(p, r) ==
  /\ Begin(p, "append")
  /\ nAppends < MaxAppends
  /\ nAppends' = nAppends + 1
  /\ rule' = [rule EXCEPT ![p] = r]
  /\ IF IsBlank(r)
     THEN /\ result' = [result EXCEPT ![p] = Returned("empty")]
          /\ stamp' = [stamp EXCEPT ![p] = 0]
          /\ UNCHANGED <<pc, audit>>
     ELSE IF TooLong(r)
     THEN /\ audit' = [audit EXCEPT !.REJECTED = @ + 1]
          /\ result' = [result EXCEPT ![p] = Returned("size")]
          /\ stamp' = [stamp EXCEPT ![p] = 0]
          /\ UNCHANGED pc
     ELSE /\ stamp' = [stamp EXCEPT ![p] = clock]
          /\ result' = [result EXCEPT ![p] = NoResult]
          /\ pc' = [pc EXCEPT ![p] = "a_open"]
          /\ UNCHANGED audit
  /\ UNCHANGED <<serverVars, callVars, fileVars, clock, buf, lock, written, appendFaulted, grants,
                 faults>>

\* open(FILE_PATH, "a") creates a missing file and leaves an existing one as
\* it is (line 132).
AppendOpen(p) ==
  /\ pc[p] = "a_open"
  /\ \E ok \in IoOutcomes :
       IF ok
       THEN /\ exists' = TRUE
            /\ created' = [created EXCEPT ![p] = ~exists]
            /\ pc' = [pc EXCEPT ![p] = "a_lock"]
            /\ UNCHANGED <<content, audit, result, appendFaulted, faults>>
       ELSE /\ faults' = faults + 1
            /\ AppendFailed(p)
            /\ UNCHANGED <<fileVars, created>>
  /\ UNCHANGED <<serverVars, callVars, clock, readFrom, rule, stamp, buf, lock, statSize, written, wrote,
                 grants, nAppends>>

\* fcntl.flock(f, LOCK_EX), then f.write(formatted_rule) into the file
\* object's buffer (lines 133-135).  A flock that raises is outside the
\* try/finally: the with statement closes the file, nothing is pending.
AppendLock(p) ==
  /\ pc[p] = "a_lock"
  /\ \E ok \in IoOutcomes :
       IF ok
       THEN /\ CanLockEx(p)
            /\ lock' = [lock EXCEPT ![p] = "ex"]
            /\ grants' = Append(grants, p)
            /\ buf' = [buf EXCEPT ![p] = FormatRule(stamp[p], rule[p])]
            /\ pc' = [pc EXCEPT ![p] = "a_flush"]
            /\ UNCHANGED <<audit, result, appendFaulted, faults>>
       ELSE /\ faults' = faults + 1
            /\ AppendFailed(p)
            /\ UNCHANGED <<lock, buf, grants>>
  /\ UNCHANGED <<serverVars, callVars, fileVars, clock, readFrom, rule, stamp, statSize, written, wrote,
                 created, nAppends>>

\* The place of p's latest grant of the exclusive lock among all the grants.
Granted(p) ==
  CHOOSE i \in 1..Len(grants) :
    grants[i] = p /\ \A j \in (i + 1)..Len(grants) : grants[j] # p

\* The sizes one raw write of the pending characters may store: all of them,
\* or a short write.
WriteSizes(b) == {Len(b)} \cup (IF Len(b) > ShortWrite THEN {ShortWrite} ELSE {})

\* f.flush(): one raw write of the buffered writer's flush loop (line 136).
\* O_APPEND puts the characters at the end of the file; a raw write that
\* raises leaves the rest pending and ends the flush.
AppendFlush(p) ==
  /\ pc[p] = "a_flush"
  /\ \E ok \in IoOutcomes :
       IF ok
       THEN \E n \in WriteSizes(buf[p]) :
              /\ content' = content \o SubSeq(buf[p], 1, n)
              /\ buf' = [buf EXCEPT ![p] = SubSeq(buf[p], n + 1, Len(buf[p]))]
              /\ wrote' = [wrote EXCEPT ![p] = @ + n]
              /\ IF n = Len(buf[p])
                 THEN /\ written' = Append(written,
                            [ts |-> stamp[p], ok |-> TRUE, grant |-> Granted(p),
                             text |-> FormatRule(stamp[p], rule[p])])
                      /\ pc' = [pc EXCEPT ![p] = "a_unlock"]
                 ELSE UNCHANGED <<written, pc>>
              /\ UNCHANGED <<faults, appendFaulted>>
       ELSE /\ faults' = faults + 1
            /\ appendFaulted' = TRUE
            /\ pc' = [pc EXCEPT ![p] = "a_raise"]
            /\ UNCHANGED <<content, buf, wrote, written>>
  /\ UNCHANGED <<serverVars, callVars, exists, clock, readFrom, rule, stamp, lock, statSize, result, audit,
                 created, grants, nAppends>>

\* The flush returned: finally releases the lock, the with statement closes
\* the file, the WRITE record is logged and the call returns (lines 137-146).
AppendUnlock(p) ==
  /\ pc[p] = "a_unlock"
  /\ lock' = [lock EXCEPT ![p] = "none"]
  /\ audit' = [audit EXCEPT !.WRITE = @ + 1]
  /\ result' = [result EXCEPT ![p] = Returned("success")]
  /\ pc' = [pc EXCEPT ![p] = "idle"]
  /\ UNCHANGED <<serverVars, callVars, fileVars, clock, readFrom, statSize, appendVars, faults>>

\* An unlock that is skipped when the flush raises (no finally).
AppendUnlockRaise_NoFinally(p) ==
  /\ pc[p] = "a_raise"
  /\ pc' = [pc EXCEPT ![p] = "a_close"]
  /\ UNCHANGED <<serverVars, callVars, fileVars, clock, readFrom, lock, statSize, result, audit,
                 appendVars, faults>>

\* The flush raised: finally releases the lock while the exception
\* propagates (lines 137-138).
AppendUnlockRaise(p) ==
  /\ pc[p] = "a_raise"
  /\ lock' = [lock EXCEPT ![p] = "none"]
  /\ pc' = [pc EXCEPT ![p] = "a_close"]
  /\ UNCHANGED <<serverVars, callVars, fileVars, clock, readFrom, statSize, result, audit, appendVars, faults>>

\* The with statement closes the file while the exception propagates:
\* close() flushes the pending characters once more, which stores them or
\* raises again, and the except branch returns the error (lines 132, 148-151).
AppendCloseRaise(p) ==
  /\ pc[p] = "a_close"
  /\ \E stored \in BOOLEAN :
       IF stored
       THEN /\ content' = content \o buf[p]
            /\ wrote' = [wrote EXCEPT ![p] = @ + Len(buf[p])]
            /\ written' = Append(written,
                  [ts |-> stamp[p], ok |-> FALSE, grant |-> Granted(p),
                   text |-> FormatRule(stamp[p], rule[p])])
       ELSE UNCHANGED <<content, wrote, written>>
  /\ buf' = [buf EXCEPT ![p] = <<>>]
  /\ AppendFailed(p)
  /\ UNCHANGED <<serverVars, callVars, exists, clock, readFrom, rule, stamp, lock, statSize, created,
                 grants, nAppends, faults>>

\* ------------------------------------------------------ read_memory_file

\* open(FILE_PATH, "r") (line 102); FileNotFoundError and any other
\* exception return their messages (lines 109-113).  At most n reads are
\* called in one behaviour.
ReadOpenWithin(p, n) ==
  /\ Begin(p, "read")
  /\ nReads < n
  /\ nReads' = nReads + 1
  /\ IF ~exists
     THEN /\ result' = [result EXCEPT ![p] = Returned("not_found")]
          /\ UNCHANGED <<pc, faults>>
     ELSE \E ok \in IoOutcomes :
            IF ok
            THEN /\ result' = [result EXCEPT ![p] = NoResult]
                 /\ pc' = [pc EXCEPT ![p] = "r_lock"]
                 /\ UNCHANGED faults
            ELSE /\ faults' = faults + 1
                 /\ result' = [result EXCEPT ![p] = Returned("read_error")]
                 /\ UNCHANGED pc
  /\ UNCHANGED <<serverVars, nStats, fileVars, clock, lock, audit, appendKept>>

ReadOpen(p) == ReadOpenWithin(p, MaxReads)

\* fcntl.flock(f, LOCK_SH) (line 103).
ReadLock(p) ==
  /\ pc[p] = "r_lock"
  /\ \E ok \in IoOutcomes :
       IF ok
       THEN /\ CanLockSh(p)
            /\ lock' = [lock EXCEPT ![p] = "sh"]
            /\ pc' = [pc EXCEPT ![p] = "r_read"]
            /\ UNCHANGED <<result, faults>>
       ELSE /\ faults' = faults + 1
            /\ result' = [result EXCEPT ![p] = Returned("read_error")]
            /\ pc' = [pc EXCEPT ![p] = "idle"]
            /\ UNCHANGED lock
  /\ UNCHANGED <<serverVars, callVars, fileVars, clock, readFrom, statSize, audit, appendVars>>

\* A read that returns without its unlock.
ReadRead_KeepsLock(p) ==
  /\ pc[p] = "r_read"
  /\ pc' = [pc EXCEPT ![p] = "idle"]
  /\ result' = [result EXCEPT ![p] =
       [kind |-> "content", text |-> UniversalNewlines(content), size |-> 0, lines |-> 0]]
  /\ UNCHANGED <<serverVars, callVars, fileVars, clock, readFrom, lock, statSize, audit,
                 appendVars, faults>>

\* content = f.read(), finally the unlock, and the return (lines 104-108); a
\* read that raises is unlocked the same way and returns the error message.
ReadRead(p) ==
  /\ pc[p] = "r_read"
  /\ lock' = [lock EXCEPT ![p] = "none"]
  /\ pc' = [pc EXCEPT ![p] = "idle"]
  /\ \E ok \in IoOutcomes :
       IF ok
       THEN /\ result' = [result EXCEPT ![p] =
                 [kind |-> "content", text |-> UniversalNewlines(content),
                  size |-> 0, lines |-> 0]]
            /\ UNCHANGED faults
       ELSE /\ faults' = faults + 1
            /\ result' = [result EXCEPT ![p] = Returned("read_error")]
  /\ UNCHANGED <<serverVars, callVars, fileVars, clock, readFrom, statSize, audit, appendVars>>

\* ------------------------------------------- what read_memory_file returns

\* "Error: Memory file not found." (line 110)
NotFoundMessage ==
  <<"E", "r", "r", "o", "r", ":", " ", "M", "e", "m", "o", "r", "y", " ",
    "f", "i", "l", "e", " ", "n", "o", "t", " ", "f", "o", "u", "n", "d", ".">>

\* str(e) of the exceptions a read meets: none, and one that reads like the
\* end of the not-found message.
ErrorTexts ==
  { <<>>,
    <<"M", "e", "m", "o", "r", "y", " ", "f", "i", "l", "e", " ",
      "n", "o", "t", " ", "f", "o", "u", "n", "d", ".">> }

\* An except Exception that answers as except FileNotFoundError does.
ReadErrorMessage_AsNotFound(e) == NotFoundMessage

\* f"Error reading file: {str(e)}" (line 113)
ReadErrorMessage(e) ==
  <<"E", "r", "r", "o", "r", " ", "r", "e", "a", "d", "i", "n", "g", " ",
    "f", "i", "l", "e", ":", " ">> \o e

\* The strings a read_memory_file that ended as r can have returned (lines
\* 108, 110, 113).
ReadReturns(r) ==
  CASE r.kind = "content" -> {r.text}
    [] r.kind = "not_found" -> {NotFoundMessage}
    [] r.kind = "read_error" -> {ReadErrorMessage(e) : e \in ErrorTexts}
    [] OTHER -> {}

\* ------------------------------------------------------ init_memory_file

\* An initialization that does not look whether the file is there.
NeedsInit_Always == TRUE

\* not os.path.exists(FILE_PATH) (line 92)
NeedsInit == ~exists

\* if not os.path.exists(FILE_PATH) (line 92).
InitCheck(p) ==
  /\ Begin(p, "init")
  /\ IF ~NeedsInit
     THEN /\ result' = [result EXCEPT ![p] = Returned("initialized")]
          /\ UNCHANGED pc
     ELSE /\ result' = [result EXCEPT ![p] = NoResult]
          /\ pc' = [pc EXCEPT ![p] = "i_open"]
  /\ UNCHANGED <<serverVars, callVars, fileVars, clock, lock, audit, appendKept, faults>>

\* open(FILE_PATH, "w") creates the file or truncates it (line 93).
InitOpen(p) ==
  /\ pc[p] = "i_open"
  /\ exists' = TRUE
  /\ content' = <<>>
  /\ pc' = [pc EXCEPT ![p] = "i_write"]
  /\ UNCHANGED <<serverVars, callVars, clock, readFrom, lock, statSize, result, audit, appendVars, faults>>

\* The two f.write calls fill the buffer, and leaving the with statement
\* writes it at the file object's offset, 0 (lines 94-96).
InitWrite(p) ==
  /\ pc[p] = "i_write"
  /\ content' = OverwriteAtStart(content, InitialContent(clock))
  /\ result' = [result EXCEPT ![p] = Returned("initialized")]
  /\ pc' = [pc EXCEPT ![p] = "idle"]
  /\ UNCHANGED <<serverVars, callVars, exists, clock, readFrom, lock, statSize, audit, appendVars, faults>>

\* --------------------------------------------------------- get_file_stats

\* A FileNotFoundError that falls through to except Exception.
AbsentStats_AsError == Returned("stats_error")

\* {"exists": False, "size_bytes": 0, "line_count": 0, "modified": None}
\* (line 167)
AbsentStats == Returned("absent")

\* os.stat(FILE_PATH) (line 157); FileNotFoundError returns the zeroed
\* result (lines 166-167).
StatsStat(p) ==
  /\ Begin(p, "stats")
  /\ nStats < MaxStats
  /\ nStats' = nStats + 1
  /\ IF ~exists
     THEN /\ result' = [result EXCEPT ![p] = AbsentStats]
          /\ statSize' = [statSize EXCEPT ![p] = 0]
          /\ UNCHANGED pc
     ELSE /\ statSize' = [statSize EXCEPT ![p] = Utf8Len(content)]
          /\ result' = [result EXCEPT ![p] = NoResult]
          /\ pc' = [pc EXCEPT ![p] = "s_count"]
  /\ UNCHANGED <<serverVars, nReads, fileVars, clock, lock, audit, appendKept, faults>>

\* open(FILE_PATH, "r") and the line count (lines 158-165); a file that is
\* gone by now raises FileNotFoundError at the open and returns the zeroed
\* result (lines 166-167); any other exception returns the error result
\* (lines 168-169).
StatsCount(p) ==
  /\ pc[p] = "s_count"
  /\ pc' = [pc EXCEPT ![p] = "idle"]
  /\ IF ~exists
     THEN /\ result' = [result EXCEPT ![p] = AbsentStats]
          /\ UNCHANGED faults
     ELSE \E ok \in IoOutcomes :
            IF ok
            THEN /\ result' = [result EXCEPT ![p] =
                      [kind |-> "stats", text |-> <<>>, size |-> statSize[p],
                       lines |-> LineCount(content)]]
                 /\ UNCHANGED faults
            ELSE /\ faults' = faults + 1
                 /\ result' = [result EXCEPT ![p] = Returned("stats_error")]
  /\ UNCHANGED <<serverVars, callVars, fileVars, clock, readFrom, lock, statSize, audit, appendVars>>

\* ------------------------------------------------------------------ clock

\* Time passes.
Tick ==
  /\ clock < MaxClock
  /\ clock' = clock + 1
  /\ UNCHANGED <<serverVars, callVars, fileVars, pc, readFrom, lock, statSize, result, audit, appendVars, faults>>

\* --------------------------------------------------------- specifications

AppendStep(p) ==
  \/ \E r \in Bodies : AppendCall(p, r)
  \/ AppendOpen(p)
  \/ AppendLock(p)
  \/ AppendFlush(p)
  \/ AppendUnlock(p)
  \/ AppendUnlockRaise(p)
  \/ AppendCloseRaise(p)

ReadStep(p) == ReadOpen(p) \/ ReadLock(p) \/ ReadRead(p)

StatsStep(p) == StatsStat(p) \/ StatsCount(p)

\* Every operation of the store, from any context, on a path that may not
\* hold a file yet.
Next ==
  \/ \E p \in Procs :
       \/ InitCheck(p) \/ InitOpen(p) \/ InitWrite(p)
       \/ AppendStep(p)
       \/ ReadStep(p)
       \/ StatsStep(p)
  \/ Tick

Spec == Init /\ [][Next]_vars

\* The store as the server runs it: the lifespan handler has initialized the
\* file, and requests append, read and stat it concurrently; a later
\* init_memory_file finds the file.
NextServing ==
  \/ \E p \in Procs :
       \/ InitCheck(p)
       \/ AppendStep(p)
       \/ ReadStep(p)
       \/ StatsStep(p)
  \/ Tick

SpecServing == InitServing /\ [][NextServing]_vars

\* The initialized file under concurrent readers and appenders.
NextReaders ==
  \E p \in Procs :
    \/ ReadOpenWithin(p, MaxReaders) \/ ReadLock(p) \/ ReadRead(p)
    \/ AppendStep(p)

SpecReaders == InitServing /\ [][NextReaders]_vars

\* The steps of an operation of p that is under way.  A thread that can
\* take its next step takes it (every open, write, flush and close returns
\* or raises), and a flock that can be granted again and again is granted.
Proceeds(p) ==
  \/ AppendOpen(p) \/ AppendFlush(p) \/ AppendUnlock(p)
  \/ AppendUnlockRaise(p) \/ AppendCloseRaise(p)
  \/ ReadRead(p)

SpecProgress ==
  /\ InitServing
  /\ [][NextReaders]_vars
  /\ \A p \in Procs :
       /\ WF_vars(Proceeds(p))
       /\ SF_vars(AppendLock(p))
       /\ SF_vars(ReadLock(p))

\* ----------------------------------------------------- the file goes away

\* Somebody outside the server removes the file.  The path holds no file
\* any more; a context that has the file open goes on reading it.
Unlink ==
  /\ exists
  /\ exists' = FALSE
  /\ UNCHANGED <<serverVars, callVars, content, clock, pc, readFrom, lock, statSize, result, audit,
                 appendVars, faults>>

\* The initialized file under readers and stats callers, while the path can
\* lose its file.
NextAbsent ==
  \/ \E p \in Procs : ReadStep(p) \/ StatsStep(p)
  \/ Unlink
  \/ Tick

SpecAbsent == InitServing /\ [][NextAbsent]_vars

\* ------------------------------------------------------------ rate limiter

\* The window test with <= for <.
Live_Inclusive(now, t) == now - t <= RATE_LIMIT_WINDOW

\* now - t < RATE_LIMIT_WINDOW (line 76)
Live(now, t) == now - t < RATE_LIMIT_WINDOW

\* rate_limit_store[client_ip] as an expression: the list of the key, the
\* empty list of a key the defaultdict does not hold yet.
Stored(ip) ==
  IF ip \in DOMAIN rate_limit_store THEN rate_limit_store[ip] ELSE <<>>

\* A cleaning that keeps every entry.
Pruned_Nothing(list, now) == list

\* [t for t in rate_limit_store[client_ip] if now - t < RATE_LIMIT_WINDOW]
\* (lines 74-77)
Pruned(list, now) == SelectSeq(list, LAMBDA t : Live(now, t))

\* The limit test with > for >=.
AtLimit_OffByOne(n) == n > RATE_LIMIT_REQUESTS

\* len(rate_limit_store[client_ip]) >= RATE_LIMIT_REQUESTS (line 79)
AtLimit(n) == n >= RATE_LIMIT_REQUESTS

\* An assignment to one list that every address shares.
Assign_Shared(ip, list) == [k \in DOMAIN rate_limit_store \cup {ip} |-> list]

\* rate_limit_store[client_ip] = list: the key is there afterwards.
Assign(ip, list) ==
  [k \in DOMAIN rate_limit_store \cup {ip} |->
     IF k = ip THEN list ELSE rate_limit_store[k]]

\* check_rate_limit(ip), called at now, returns ok.
Called(ip, now, ok) ==
  calls' = Append(calls, [ip |-> ip, at |-> now, ok |-> ok])

\* What check_rate_limit(ip) returns when no other context is inside it.
Admits(ip) == ~AtLimit(Len(Pruned(Stored(ip), time)))

\* check_rate_limit(ip) from the first line to the return with no other
\* context inside it, as on the event loop, where the function has no await
\* (lines 70-83): the cleaned list is stored, and the call time is appended
\* to it unless the list is at the limit.
CheckRateLimit(ip) ==
  /\ Len(calls) < MaxCalls
  /\ LET kept == Pruned(Stored(ip), time)
     IN  rate_limit_store' =
           Assign(ip, IF AtLimit(Len(kept)) THEN kept ELSE Append(kept, time))
  /\ Called(ip, time, Admits(ip))

\* A caller on the event loop asks the limiter.
Allow(ip) ==
  /\ CheckRateLimit(ip)
  /\ UNCHANGED <<storeVars, configVars, time, frame, req>>

\* time.time() moves on.
TimePasses ==
  /\ time < MaxTime
  /\ time' = time + 1
  /\ UNCHANGED <<storeVars, rate_limit_store, configVars, calls, frame, req>>

\* A server with any configured limit and window.
InitLimiter ==
  /\ exists = TRUE
  /\ content = InitialContent(0)
  /\ InitCommon
  /\ InitServer
  /\ RATE_LIMIT_REQUESTS \in 0..MaxLimit
  /\ RATE_LIMIT_WINDOW \in 1..MaxWindow
  /\ NoBackup

\* The limiter as the server calls it: every check_rate_limit runs on the
\* one event loop, one call after the other.
NextLimiter ==
  \/ \E ip \in Ids : Allow(ip)
  \/ TimePasses

SpecLimiter == InitLimiter /\ [][NextLimiter]_vars

\* ---------------------------------------- rate limiter, called by threads

\* The calls that have begun: returned or running.
Begun == Len(calls) + Cardinality({p \in Procs : frame[p].pc # "idle"})

\* now = time.time() and the list comprehension (lines 72-77, the right-hand
\* side): reading rate_limit_store[client_ip] puts a missing key in the
\* defaultdict.
LimRead(p, ip) ==
  /\ frame[p].pc = "idle"
  /\ Begun < MaxCalls
  /\ frame' = [frame EXCEPT ![p] =
       [pc |-> "assign", ip |-> ip, now |-> time, kept |-> Pruned(Stored(ip), time)]]
  /\ rate_limit_store' = Assign(ip, Stored(ip))
  /\ UNCHANGED <<storeVars, configVars, time, calls, req>>

\* rate_limit_store[client_ip] = the cleaned list (line 74).
LimAssign(p) ==
  /\ frame[p].pc = "assign"
  /\ rate_limit_store' = Assign(frame[p].ip, frame[p].kept)
  /\ frame' = [frame EXCEPT ![p].pc = "count"]
  /\ UNCHANGED <<storeVars, configVars, time, calls, req>>

\* if len(rate_limit_store[client_ip]) >= RATE_LIMIT_REQUESTS: return False
\* (lines 79-80).
LimCount(p) ==
  /\ frame[p].pc = "count"
  /\ IF AtLimit(Len(Stored(frame[p].ip)))
     THEN /\ Called(frame[p].ip, frame[p].now, FALSE)
          /\ frame' = [frame EXCEPT ![p] = IdleFrame]
     ELSE /\ frame' = [frame EXCEPT ![p].pc = "append"]
          /\ UNCHANGED calls
  /\ UNCHANGED <<storeVars, rate_limit_store, configVars, time, req>>

\* rate_limit_store[client_ip].append(now); return True (lines 82-83).
LimAppend(p) ==
  /\ frame[p].pc = "append"
  /\ rate_limit_store' = Assign(frame[p].ip, Append(Stored(frame[p].ip), frame[p].now))
  /\ Called(frame[p].ip, frame[p].now, TRUE)
  /\ frame' = [frame EXCEPT ![p] = IdleFrame]
  /\ UNCHANGED <<storeVars, configVars, time, req>>

\* The limiter called from several threads with nothing to serialize them:
\* a thread switch can fall between any two statements of check_rate_limit.
NextLimiterThreads ==
  \/ \E p \in Procs :
       \/ \E ip \in Ids : LimRead(p, ip)
       \/ LimAssign(p)
       \/ LimCount(p)
       \/ LimAppend(p)
  \/ TimePasses

SpecLimiterThreads == InitLimiter /\ [][NextLimiterThreads]_vars

\* --------------------------------------------------------- admission gates

\* The X-API-Key header of a request: the configured key, another one, none.
Keys == {"valid", "invalid", "missing"}

\* A check that lets a request without the header through.
KeyMatches_MissingPasses(key) == key # "invalid"

\* not (key != API_KEY) (lines 186 and 220); API_KEY is set (lines 40-41).
KeyMatches(key) == key = "valid"

\* The routes that depend on verify_api_key (lines 346, 368, 380).
RestEndpoints == {"GET /api/memory", "POST /api/memory", "GET /health/secure"}

\* The tools of the MCP app behind APIKeyAuthMiddleware (lines 252, 263).
McpTools == {"read_memory", "write_memory"}

\* Request r arrives: the requests before it have.
Arrives(r) ==
  /\ req[r].stage = "new"
  /\ \A q \in Reqs : q < r => req[q].stage # "new"

\* Gates that ask the limiter before they look at the key.
Gate_LimitFirst(r, key, ip, ep, failed, limited, passed) ==
  /\ Arrives(r)
  /\ CheckRateLimit(ip)
  /\ req' = [req EXCEPT ![r] =
       [stage |-> IF Admits(ip) /\ KeyMatches(key) THEN "admitted" ELSE "done",
        ep |-> ep, key |-> key, ip |-> ip, call |-> Len(calls) + 1,
        status |-> IF ~Admits(ip) THEN 429 ELSE IF ~KeyMatches(key) THEN 403 ELSE 0,
        log |-> IF ~Admits(ip) THEN limited ELSE IF ~KeyMatches(key) THEN failed ELSE passed,
        ops |-> <<>>]]
  /\ UNCHANGED <<storeVars, configVars, time, frame>>

\* The key check, then the rate limit check, of request r as it arrives
\* (lines 212-229 and 179-202): a wrong key is answered 403 before the
\* limiter is asked, a denied request 429, and only an admitted request goes
\* on to its endpoint.  failed, limited and passed are the audit lines.
Gate(r, key, ip, ep, failed, limited, passed) ==
  /\ Arrives(r)
  /\ IF ~KeyMatches(key)
     THEN /\ req' = [req EXCEPT ![r] =
               [stage |-> "done", ep |-> ep, key |-> key, ip |-> ip, call |-> 0,
                status |-> 403, log |-> failed, ops |-> <<>>]]
          /\ UNCHANGED <<rate_limit_store, calls>>
     ELSE /\ CheckRateLimit(ip)
          /\ req' = [req EXCEPT ![r] =
               [stage |-> IF Admits(ip) THEN "admitted" ELSE "done",
                ep |-> ep, key |-> key, ip |-> ip, call |-> Len(calls) + 1,
                status |-> IF Admits(ip) THEN 0 ELSE 429,
                log |-> IF Admits(ip) THEN passed ELSE limited,
                ops |-> <<>>]]
  /\ UNCHANGED <<storeVars, configVars, time, frame>>

\* verify_api_key, the dependency of the REST routes (lines 212-229).
VerifyApiKey(r) ==
  \E key \in Keys, ip \in Ids, ep \in RestEndpoints :
    Gate(r, key, ip, ep, "AUTH_FAILED", "RATE_LIMITED", "none")

\* A middleware that counts its requests in a window of its own, apart from
\* the one of the REST routes.
Dispatch_OwnQuota(r) ==
  \E key \in Keys, ip \in Ids, ep \in McpTools :
    /\ Arrives(r)
    /\ IF ~KeyMatches(key)
       THEN /\ req' = [req EXCEPT ![r] =
                 [stage |-> "done", ep |-> ep, key |-> key, ip |-> ip, call |-> 0,
                  status |-> 403, log |-> "MCP_AUTH_FAILED", ops |-> <<>>]]
            /\ UNCHANGED <<rate_limit_store, calls>>
       ELSE /\ CheckRateLimit(NumIds + ip)
            /\ req' = [req EXCEPT ![r] =
                 [stage |-> IF Admits(NumIds + ip) THEN "admitted" ELSE "done",
                  ep |-> ep, key |-> key, ip |-> ip, call |-> Len(calls) + 1,
                  status |-> IF Admits(NumIds + ip) THEN 0 ELSE 429,
                  log |-> IF Admits(NumIds + ip) THEN "MCP_REQUEST" ELSE "MCP_RATE_LIMITED",
                  ops |-> <<>>]]
    /\ UNCHANGED <<storeVars, configVars, time, frame>>

\* APIKeyAuthMiddleware.dispatch up to call_next (lines 179-202).
Dispatch(r) ==
  \E key \in Keys, ip \in Ids, ep \in McpTools :
    Gate(r, key, ip, ep, "MCP_AUTH_FAILED", "MCP_RATE_LIMITED", "MCP_REQUEST")

\* The rule parameter of a write request: one that is accepted, one that is
\* rejected for its size.
RuleParams == {<<"x", "\r", "y">>, <<" ", "x", "x", " ">>}

\* What an endpoint leaves alone in the store.
endpointKept ==
  <<callVars, clock, pc, readFrom, rule, stamp, buf, lock, statSize, result, wrote,
    created, appendFaulted, nAppends, faults>>

\* append_to_memory_file(r) from the call to the return with no other
\* context at the file and every system call succeeding (lines 116-146); the
\* endpoints run in context 1, the event loop.
AppendAlone(r) ==
  IF IsBlank(r)
  THEN UNCHANGED <<fileVars, audit, written, grants>>
  ELSE IF TooLong(r)
  THEN /\ audit' = [audit EXCEPT !.REJECTED = @ + 1]
       /\ UNCHANGED <<fileVars, written, grants>>
  ELSE /\ exists' = TRUE
       /\ content' = content \o FormatRule(clock, r)
       /\ audit' = [audit EXCEPT !.WRITE = @ + 1]
       /\ grants' = Append(grants, 1)
       /\ written' = Append(written,
            [ts |-> clock, ok |-> TRUE, grant |-> Len(grants) + 1,
             text |-> FormatRule(clock, r)])

\* The endpoint of an admitted request answers; ops are the store
\* operations it called.
Answered(r, ep, ops) ==
  /\ req[r].stage = "admitted"
  /\ req[r].ep = ep
  /\ req' = [req EXCEPT ![r].stage = "done", ![r].status = 200, ![r].ops = ops]
  /\ UNCHANGED <<limiterVars, endpointKept>>

\* GET /api/memory (lines 368-377).
ApiReadMemory(r) ==
  /\ Answered(r, "GET /api/memory", <<"read", "stats">>)
  /\ UNCHANGED <<fileVars, audit, written, grants>>

\* POST /api/memory (lines 380-393).
ApiWriteMemory(r, body) ==
  /\ Answered(r, "POST /api/memory", <<"append", "stats">>)
  /\ AppendAlone(body)

\* GET /health/secure (lines 346-361).
HealthSecure(r) ==
  /\ Answered(r, "GET /health/secure", <<"stats">>)
  /\ UNCHANGED <<fileVars, audit, written, grants>>

\* The MCP tool read_memory (lines 252-259).
ReadMemory(r) ==
  /\ Answered(r, "read_memory", <<"read">>)
  /\ UNCHANGED <<fileVars, audit, written, grants>>

\* The MCP tool write_memory (lines 263-280).
WriteMemory(r, body) ==
  /\ Answered(r, "write_memory", <<"append">>)
  /\ AppendAlone(body)

\* GET /health, the public route: no dependency, no middleware, and the
\* handler reads neither the key nor the address (lines 331-343).
Health(r) ==
  /\ Arrives(r)
  /\ req' = [req EXCEPT ![r] =
       [stage |-> "done", ep |-> "GET /health", key |-> "none", ip |-> 0, call |-> 0,
        status |-> 200, log |-> "none", ops |-> <<"stats">>]]
  /\ UNCHANGED <<storeVars, limiterVars>>

\* One server process: the gates and the endpoints run on its event loop.
\* A gate and its endpoint are two steps, other requests come between them;
\* an endpoint has no await, its store operations run to their return.
NextHttp ==
  \/ \E r \in Reqs :
       \/ VerifyApiKey(r)
       \/ Dispatch(r)
       \/ Health(r)
       \/ ApiReadMemory(r)
       \/ \E body \in RuleParams : ApiWriteMemory(r, body)
       \/ HealthSecure(r)
       \/ ReadMemory(r)
       \/ \E body \in RuleParams : WriteMemory(r, body)
  \/ TimePasses

SpecHttp == InitLimiter /\ [][NextHttp]_vars

\* ----------------------------------------------------------- backup program

\* backup.py runs one command at a time: "backup" is run_backup_job,
\* "gdrive" is backup_to_gdrive on its own, "cleanup" is cleanup_old_backups
\* followed by cleanup_old_s3_backups.  A destination holds backup ids:
\* those of OldBackups are older than BACKUP_RETENTION_DAYS, the one a
\* command uploads is new.  Every call of Drive, of S3 or of SMTP may fail.

\* The backups older than the retention period that a destination may hold.
OldBackups == 1..MaxOld

\* The id that the running command's upload is given by its destination.
NewId == MaxOld + nJobs

\* What a backup step leaves alone: the server, and the environment.
backupKept ==
  <<storeVars, rate_limit_store, RATE_LIMIT_REQUESTS, RATE_LIMIT_WINDOW,
    time, calls, frame, req, backupEnv>>

\* The locals of a command that starts.
Started(c) ==
  [IdleJob EXCEPT !.cmd = c, !.drive0 = drive, !.bucket0 = bucket]

\* run_backup_job(include_gdrive, include_s3, include_email) is called: the
\* three success flags are False.
RunBackupJob(ig, is, ie) ==
  /\ job.pc = "idle"
  /\ nJobs < MaxJobs
  /\ nJobs' = nJobs + 1
  /\ job' = [Started("backup") EXCEPT !.pc = "job_gdrive",
               !.include_gdrive = ig, !.include_s3 = is, !.include_email = ie]
  /\ UNCHANGED <<backupKept, drive, bucket>>

\* The command "gdrive": backup_to_gdrive() and nothing else.
GdriveCommand ==
  /\ job.pc = "idle"
  /\ nJobs < MaxJobs
  /\ nJobs' = nJobs + 1
  /\ job' = [Started("gdrive") EXCEPT !.pc = "g_check"]
  /\ UNCHANGED <<backupKept, drive, bucket>>

\* The command "cleanup": cleanup_old_backups(), then
\* cleanup_old_s3_backups().
CleanupCommand ==
  /\ job.pc = "idle"
  /\ nJobs < MaxJobs
  /\ nJobs' = nJobs + 1
  /\ job' = [Started("cleanup") EXCEPT !.pc = "g_cleanup"]
  /\ UNCHANGED <<backupKept, drive, bucket>>

\* The job reaches its Google Drive part, and calls backup_to_gdrive if it
\* is to include Drive and the folder id is set.
JobGdrive ==
  /\ job.pc = "job_gdrive"
  /\ job' = [job EXCEPT !.pc = IF job.include_gdrive /\ PARENT_FOLDER_ID
                                THEN "g_check" ELSE "job_s3"]
  /\ UNCHANGED <<backupKept, drive, bucket, nJobs>>

\* backup_to_gdrive returns v to its caller.  The job takes v as file_id,
\* sets gdrive_success to "file_id is not None" and goes on to the cleanup
\* of Drive if that is true, to its S3 part otherwise.
GdriveReturn_CleansAnyway(j, v) ==
  IF j.cmd = "backup"
  THEN [j EXCEPT !.ret = v, !.file_id = v, !.gdrive_success = (v # 0),
                 !.pc = "g_cleanup"]
  ELSE [j EXCEPT !.ret = v, !.pc = "idle"]

GdriveReturn(j, v) ==
  IF j.cmd = "backup"
  THEN [j EXCEPT !.ret = v, !.file_id = v, !.gdrive_success = (v # 0),
                 !.pc = IF v # 0 THEN "g_cleanup" ELSE "job_s3"]
  ELSE [j EXCEPT !.ret = v, !.pc = "idle"]

\* The two early returns of backup_to_gdrive: no folder id, no file to back
\* up.
GdriveRefuses_Nothing == FALSE

GdriveRefuses == ~PARENT_FOLDER_ID \/ ~exists

BackupToGdrive ==
  /\ job.pc = "g_check"
  /\ job' = IF GdriveRefuses
            THEN GdriveReturn(job, 0)
            ELSE [job EXCEPT !.pc = "g_service"]
  /\ UNCHANGED <<backupKept, drive, bucket, nJobs>>

\* get_drive_service(): the service object is there, or an exception is
\* caught by backup_to_gdrive, which returns None.
GetDriveService ==
  /\ job.pc = "g_service"
  /\ \E ok \in BOOLEAN :
       job' = IF ok
              THEN [job EXCEPT !.contacted = TRUE, !.pc = "g_upload"]
              ELSE GdriveReturn([job EXCEPT !.contacted = TRUE], 0)
  /\ UNCHANGED <<backupKept, drive, bucket, nJobs>>

\* files().create(...).execute(): the file is in the folder and its id is
\* returned, or an HttpError or another exception is caught and None is
\* returned.
GdriveUpload ==
  /\ job.pc = "g_upload"
  /\ \E ok \in BOOLEAN :
       IF ok
       THEN /\ drive' = drive \cup {NewId}
            /\ job' = GdriveReturn([job EXCEPT !.uploaded = TRUE], NewId)
       ELSE /\ drive' = drive
            /\ job' = GdriveReturn(job, 0)
  /\ UNCHANGED <<backupKept, bucket, nJobs>>

\* cleanup_old_backups(): nothing without a folder id; otherwise each listed
\* old backup is deleted unless its deletion, or the call as a whole, fails.
CleanupOldBackups ==
  /\ job.pc = "g_cleanup"
  /\ IF ~PARENT_FOLDER_ID
     THEN drive' = drive
     ELSE \E gone \in SUBSET (drive \cap OldBackups) : drive' = drive \ gone
  /\ job' = [job EXCEPT !.pc = IF job.cmd = "backup"
                                THEN "g_stats" ELSE "s_cleanup"]
  /\ UNCHANGED <<backupKept, bucket, nJobs>>

\* get_backup_stats() and the log line of the job: when the listing comes
\* back empty the result has no 'total_size_mb' and the job ends with a
\* KeyError.
GetBackupStats ==
  /\ job.pc = "g_stats"
  /\ \E listed \in BOOLEAN :
       job' = IF listed
              THEN [job EXCEPT !.pc = "job_s3"]
              ELSE [job EXCEPT !.pc = "idle", !.raised = TRUE]
  /\ UNCHANGED <<backupKept, drive, bucket, nJobs>>

\* The early returns of backup_to_s3.
S3Refuses == ~S3_ENABLED \/ ~S3_AVAILABLE \/ ~S3_BUCKET \/ ~exists

\* The S3 part of the job: backup_to_s3() if the job is to include S3 and
\* S3 is enabled; s3_success is "s3_key is not None".
JobS3 ==
  /\ job.pc = "job_s3"
  /\ IF job.include_s3 /\ S3_ENABLED
     THEN \E ok \in BOOLEAN :
            IF ok /\ ~S3Refuses
            THEN /\ bucket' = bucket \cup {NewId}
                 /\ job' = [job EXCEPT !.s3_key = NewId, !.s3_success = TRUE,
                                       !.pc = "s_cleanup"]
            ELSE /\ bucket' = bucket
                 /\ job' = [job EXCEPT !.pc = "job_email"]
     ELSE /\ bucket' = bucket
          /\ job' = [job EXCEPT !.pc = "job_email"]
  /\ UNCHANGED <<backupKept, drive, nJobs>>

\* cleanup_old_s3_backups(): nothing unless S3 is enabled, available and has
\* a bucket; otherwise the old backups are deleted in batches, of which the
\* service reports the deleted keys.
CleanupOldS3Backups ==
  /\ job.pc = "s_cleanup"
  /\ IF ~S3_ENABLED \/ ~S3_AVAILABLE \/ ~S3_BUCKET
     THEN bucket' = bucket
     ELSE \E gone \in SUBSET (bucket \cap OldBackups) : bucket' = bucket \ gone
  /\ job' = [job EXCEPT !.pc = IF job.cmd = "backup"
                                THEN "s_stats" ELSE "idle"]
  /\ UNCHANGED <<backupKept, drive, nJobs>>

\* get_s3_backup_stats() and the log line of the job, as for Drive.
GetS3BackupStats ==
  /\ job.pc = "s_stats"
  /\ \E listed \in BOOLEAN :
       job' = IF listed
              THEN [job EXCEPT !.pc = "job_email"]
              ELSE [job EXCEPT !.pc = "idle", !.raised = TRUE]
  /\ UNCHANGED <<backupKept, drive, bucket, nJobs>>

\* The email part of the job and its summary: backup_to_email() returns
\* True or False.
JobEmail ==
  /\ job.pc = "job_email"
  /\ \E sent \in BOOLEAN :
       job' = [job EXCEPT !.pc = "idle",
                 !.email_success = job.include_email /\ EMAIL_ENABLED /\ sent]
  /\ UNCHANGED <<backupKept, drive, bucket, nJobs>>

\* The memory file is there or not; the environment, and the old backups at
\* each destination, are any.
InitBackup ==
  /\ exists \in BOOLEAN
  /\ content = IF exists THEN InitialContent(0) ELSE <<>>
  /\ InitCommon
  /\ InitServer
  /\ RATE_LIMIT_REQUESTS = MaxLimit
  /\ RATE_LIMIT_WINDOW = MaxWindow
  /\ PARENT_FOLDER_ID \in BOOLEAN
  /\ S3_ENABLED \in BOOLEAN
  /\ S3_AVAILABLE \in BOOLEAN
  /\ S3_BUCKET \in BOOLEAN
  /\ EMAIL_ENABLED \in BOOLEAN
  /\ drive \in SUBSET OldBackups
  /\ bucket \in SUBSET OldBackups
  /\ job = IdleJob
  /\ nJobs = 0

NextBackup ==
  \/ \E ig \in BOOLEAN, is \in BOOLEAN, ie \in BOOLEAN : RunBackupJob(ig, is, ie)
  \/ GdriveCommand
  \/ CleanupCommand
  \/ JobGdrive
  \/ BackupToGdrive
  \/ GetDriveService
  \/ GdriveUpload
  \/ CleanupOldBackups
  \/ GetBackupStats
  \/ JobS3
  \/ CleanupOldS3Backups
  \/ GetS3BackupStats
  \/ JobEmail

SpecBackup == InitBackup /\ [][NextBackup]_vars

\* ----------------------------------------------------------------- claims

AppendPcs == {"a_open", "a_lock", "a_flush", "a_unlock", "a_raise", "a_close"}
AppendKinds == {"empty", "size", "success", "write_error"}

\* Context p has returned from an append.
AppendReturned(p) == pc[p] = "idle" /\ result[p].kind \in AppendKinds

\* The body is empty or consists only of whitespace.
WhitespaceOnly(s) == \A i \in 1..Len(s) : s[i] \in Whitespace

NoAppendRunning == \A p \in Procs : pc[p] \notin AppendPcs

Texts(es) == [i \in 1..Len(es) |-> es[i].text]

\* The file an orderly log holds after its first n complete entries.
LogOf(n) == InitialContent(0) \o Concat(Texts(SubSeq(written, 1, n)))

IsOk(e) == e.ok

\* The entries of the appends that succeed, in the order they were accepted;
\* the first audit.WRITE of them have returned.
Accepted == SelectSeq(written, IsOk)

\* C1: the content is append-only: whenever the file exists before and after
\* a step, the content before is a prefix of the content after.
C1_AppendOnly == [][(exists /\ exists') => IsPrefix(content, content')]_vars

\* C2: a read performed after the appends, with no other operation running,
\* returns exactly the initial content followed by the rendered entries of
\* the successful appends in the order they were accepted.
C2_ReadReturnsLog ==
  [][\A p \in Procs :
       ( /\ pc[p] = "r_read"
         /\ result'[p].kind = "content"
         /\ \A q \in Procs \ {p} : pc[q] = "idle" )
       => result'[p].text = InitialContent(0) \o Concat(Texts(Accepted))]_vars

\* C3: when the appends that ran (concurrently or not) all returned success,
\* the file holds every one of their rendered entries as one contiguous run:
\* it is the initial content followed by the entries, one after the other.
C3_ConcurrentAppendIsolation ==
  (NoAppendRunning /\ ~appendFaulted)
    => /\ Len(written) = audit.WRITE
       /\ content = LogOf(Len(written))

\* Two appends that overlapped (the entry written first carries the later
\* timestamp) both returned success.
C3_Witness ==
  /\ NoAppendRunning
  /\ ~appendFaulted
  /\ audit.WRITE = 2
  /\ Len(written) = 2
  /\ written[1].ts > written[2].ts
  /\ written[1].text # written[2].text

\* C4: the content a read returns is the initial content followed by a whole
\* number of complete rendered entries (compared as read returns text, after
\* its newline translation), never a partially written entry.
C4_ReadSnapshot ==
  \A p \in Procs :
    result[p].kind = "content"
      => \E k \in 0..Len(written) : result[p].text = UniversalNewlines(LogOf(k))

\* C5: while an append holds the exclusive lock, no other context holds the
\* exclusive lock or the shared lock.
C5_MutualExclusion ==
  \A p, q \in Procs : (p # q /\ lock[p] = "ex") => lock[q] = "none"

\* An appender holds the exclusive lock in the middle of its entry while a
\* reader waits for the shared lock.
C5_Witness ==
  \E p, q \in Procs :
    /\ lock[p] = "ex"
    /\ pc[p] = "a_flush"
    /\ wrote[p] > 0
    /\ pc[q] = "r_lock"

\* C6: a read that starts after an append returned success returns content
\* that contains that append's rendered entry.
C6_ReadYourWrites ==
  \A p \in Procs :
    result[p].kind = "content"
      => \A i \in 1..readFrom[p] : Contains(result[p].text, Accepted[i].text)

\* C7: an empty or whitespace-only body is rejected with the empty error and
\* writes nothing; a body that is non-empty after trimming and within the
\* size limit succeeds.
C7_BlankRejectedElseSucceeds ==
  \A p \in Procs :
    AppendReturned(p)
      => IF WhitespaceOnly(rule[p])
         THEN result[p].kind = "empty" /\ wrote[p] = 0
         ELSE (Utf8Len(rule[p]) <= MAX_RULE_SIZE) => result[p].kind = "success"

\* C7 as amended: an empty or whitespace-only body is rejected with the empty
\* error and writes nothing; a body that is non-empty after trimming and at
\* most MAX_RULE_SIZE characters long passes validation, and its append
\* returns success with the whole entry written, or the write error after the
\* operating system raised.
C7_BlankRejectedElseValidated ==
  \A p \in Procs :
    AppendReturned(p)
      => IF WhitespaceOnly(rule[p])
         THEN result[p].kind = "empty" /\ wrote[p] = 0
         ELSE (Len(rule[p]) <= MAX_RULE_SIZE)
                => \/ /\ result[p].kind = "success"
                      /\ wrote[p] = Len(FormatRule(stamp[p], rule[p]))
                   \/ /\ result[p].kind = "write_error"
                      /\ faults > 0

\* A whitespace-only body was rejected as empty and a padded body succeeded.
C7_Witness ==
  \E p, q \in Procs :
    /\ AppendReturned(p)
    /\ rule[p] # <<>>
    /\ WhitespaceOnly(rule[p])
    /\ result[p].kind = "empty"
    /\ AppendReturned(q)
    /\ Strip(rule[q]) # rule[q]
    /\ result[q].kind = "success"

\* C8: for every body, an append of raw length exactly the maximum succeeds
\* and one of raw length maximum + 1 fails with the size error.
C8_SizeBoundary ==
  \A p \in Procs :
    AppendReturned(p)
      => /\ (Len(rule[p]) = MAX_RULE_SIZE) => result[p].kind = "success"
         /\ (Len(rule[p]) = MAX_RULE_SIZE + 1) => result[p].kind = "size"

\* C8 as amended: for every body that is non-empty after trimming, an append
\* of exactly MAX_RULE_SIZE characters passes validation (it returns success,
\* or the write error after the operating system raised), and one of
\* MAX_RULE_SIZE + 1 characters fails with the size error and writes nothing.
C8_SizeBoundaryNonBlank ==
  \A p \in Procs :
    (AppendReturned(p) /\ ~WhitespaceOnly(rule[p]))
      => /\ (Len(rule[p]) = MAX_RULE_SIZE)
              => \/ result[p].kind = "success"
                 \/ result[p].kind = "write_error" /\ faults > 0
         /\ (Len(rule[p]) = MAX_RULE_SIZE + 1)
              => result[p].kind = "size" /\ wrote[p] = 0

\* One body at the limit succeeded and one a character longer met the size
\* error.
C8_Witness ==
  \E p, q \in Procs :
    /\ AppendReturned(p)
    /\ Len(rule[p]) = MAX_RULE_SIZE
    /\ result[p].kind = "success"
    /\ AppendReturned(q)
    /\ ~WhitespaceOnly(rule[q])
    /\ Len(rule[q]) = MAX_RULE_SIZE + 1
    /\ result[q].kind = "size"

\* C9: no append whose raw body encodes to more than MAX_RULE_SIZE bytes is
\* accepted.
C9_ByteLimit ==
  \A p \in Procs :
    (pc[p] \in AppendPcs \/ (AppendReturned(p) /\ result[p].kind = "success"))
      => Utf8Len(rule[p]) <= MAX_RULE_SIZE

\* C10: an append that returns an error of any kind has put none of its
\* characters in the file and has not created the file.
C10_ErrorLeavesFileUnchanged ==
  \A p \in Procs :
    (AppendReturned(p) /\ result[p].kind # "success")
      => wrote[p] = 0 /\ ~created[p]

\* C11: init_memory_file called while the file exists does not take the
\* creating branch and returns with the file as it was, and a file on which
\* it has returned still begins with what the first initialization wrote.
C11_InitIdempotent ==
  [][\A p \in Procs :
       (pc[p] = "idle" /\ exists) =>
         /\ pc'[p] \notin {"i_open", "i_write"}
         /\ (result'[p].kind = "initialized" /\ result[p].kind # "initialized") =>
              (exists' /\ content' = content)
         /\ result'[p].kind = "initialized" => IsPrefix(InitialContent(0), content')]_vars

\* A second init_memory_file has returned on a file that holds appended
\* entries after the initial content.
C11_Witness ==
  \E p \in Procs :
    /\ pc[p] = "idle"
    /\ result[p].kind = "initialized"
    /\ audit.WRITE > 0
    /\ content # InitialContent(0)
    /\ IsPrefix(InitialContent(0), content)

\* The check_rate_limit calls of one client address, in order.
CallsOf(ip) == SelectSeq(calls, LAMBDA c : c.ip = ip)

\* How often t occurs in list.
Occurrences(list, t) == Cardinality({k \in 1..Len(list) : list[k] = t})

\* C12: with a limit L >= 1, of the calls an address makes at the instant of
\* its first call the first L return true and every later one false; and
\* after L calls at that instant, the first call at least a window later
\* returns true, whatever calls came between.
C12_Boundary ==
  \A ip \in Ids :
    LET cs == CallsOf(ip)
        L == RATE_LIMIT_REQUESTS
        W == RATE_LIMIT_WINDOW
    IN  (L >= 1 /\ cs # <<>>) =>
          \A j \in 1..Len(cs) :
            /\ (cs[j].at = cs[1].at /\ j <= L) => cs[j].ok
            /\ (cs[j].at = cs[1].at /\ j > L) => ~cs[j].ok
            /\ ( /\ j > L
                 /\ cs[L].at = cs[1].at
                 /\ cs[j].at >= cs[1].at + W
                 /\ \A i \in (L + 1)..(j - 1) : cs[i].at < cs[1].at + W ) => cs[j].ok

\* With a limit of at least 2, an address was admitted up to the limit at
\* one instant, denied at that instant, and admitted a window later.
C12_Witness ==
  \E ip \in Ids :
    LET cs == CallsOf(ip)
        L == RATE_LIMIT_REQUESTS
    IN  /\ L >= 2
        /\ Len(cs) >= L + 2
        /\ cs[L + 1].at = cs[1].at
        /\ ~cs[L + 1].ok
        /\ cs[Len(cs)].at >= cs[1].at + RATE_LIMIT_WINDOW
        /\ cs[Len(cs)].ok

\* C13: after a call for an address, admitted or denied, the address's list
\* holds only times less than a window before that call and at most limit
\* of them; and at no instant do more than limit admissions of one address
\* lie less than a window back.
C13_WindowInvariant ==
  \A ip \in Ids :
    LET cs == CallsOf(ip)
    IN  /\ cs # <<>> =>
             /\ ip \in DOMAIN rate_limit_store
             /\ \A k \in 1..Len(rate_limit_store[ip]) :
                  cs[Len(cs)].at - rate_limit_store[ip][k] < RATE_LIMIT_WINDOW
             /\ Len(rate_limit_store[ip]) <= RATE_LIMIT_REQUESTS
        /\ Cardinality({i \in 1..Len(cs) :
                          cs[i].ok /\ time - cs[i].at < RATE_LIMIT_WINDOW})
             <= RATE_LIMIT_REQUESTS

\* An address is denied with its list at the limit, after one of its
\* earlier admissions was cleaned from the list.
C13_Witness ==
  \E ip \in DOMAIN rate_limit_store :
    LET cs == CallsOf(ip)
    IN  /\ RATE_LIMIT_REQUESTS >= 1
        /\ Len(rate_limit_store[ip]) = RATE_LIMIT_REQUESTS
        /\ ~cs[Len(cs)].ok
        /\ \E i \in 1..Len(cs) :
             cs[i].ok /\ Occurrences(rate_limit_store[ip], cs[i].at) = 0

\* C14: a call that returns false leaves rate_limit_store, its keys and its
\* lists, as it was.
C14_DeniedNoSideEffects ==
  [][(calls' # calls /\ ~calls'[Len(calls')].ok) =>
       rate_limit_store' = rate_limit_store]_vars

\* C15: under calls from several threads, no address has more than limit
\* admissions less than a window back, and every such admission is in the
\* address's list.
C15_ThreadSafe ==
  \A ip \in Ids :
    LET cs == CallsOf(ip)
        live == {i \in 1..Len(cs) : cs[i].ok /\ time - cs[i].at < RATE_LIMIT_WINDOW}
    IN  /\ Cardinality(live) <= RATE_LIMIT_REQUESTS
        /\ \A i \in live :
             Occurrences(Stored(ip), cs[i].at)
               >= Cardinality({j \in live : cs[j].at = cs[i].at})

\* C16: at a call, a stored time exactly a window old is neither kept nor
\* counted, a stored time less than a window old is kept, and the call
\* returns true exactly if fewer than limit stored times are less than a
\* window old.
C16_StrictWindow ==
  [][calls' # calls =>
       LET c == calls'[Len(calls')]
           old == IF c.ip \in DOMAIN rate_limit_store
                  THEN rate_limit_store[c.ip] ELSE <<>>
           new == rate_limit_store'[c.ip]
           young == {k \in 1..Len(old) : c.at - old[k] < RATE_LIMIT_WINDOW}
       IN  /\ \A k \in 1..Len(old) :
                c.at - old[k] = RATE_LIMIT_WINDOW => Occurrences(new, old[k]) = 0
           /\ \A k \in young : Occurrences(new, old[k]) >= Occurrences(old, old[k])
           /\ c.ok <=> Cardinality(young) < RATE_LIMIT_REQUESTS]_vars

\* With a limit of 1, an address is admitted, denied less than a window
\* later, and admitted exactly a window after the first admission.
C16_Witness ==
  \E ip \in Ids :
    LET cs == CallsOf(ip)
    IN  /\ RATE_LIMIT_REQUESTS = 1
        /\ \E i, k, j \in 1..Len(cs) :
             /\ i < k /\ k < j
             /\ cs[i].ok /\ ~cs[k].ok /\ cs[j].ok
             /\ cs[k].at - cs[i].at < RATE_LIMIT_WINDOW
             /\ cs[j].at - cs[i].at = RATE_LIMIT_WINDOW

\* C17: rate_limit_store has no more keys than there are addresses with a
\* call less than a window back.
C17_KeysBoundedByActive ==
  Cardinality(DOMAIN rate_limit_store)
    <= Cardinality({ip \in Ids :
                      \E i \in 1..Len(calls) :
                        calls[i].ip = ip /\ time - calls[i].at < RATE_LIMIT_WINDOW})

\* The get_file_stats call of this step found no file at os.stat and
\* returned the zeroed result without making a file.
StatOfAbsent ==
  (nStats' # nStats /\ ~exists) =>
    /\ ~exists'
    /\ \E p \in Procs :
         /\ pc'[p] = "idle"
         /\ result'[p].kind = "absent"
         /\ result'[p].size = 0
         /\ result'[p].lines = 0

\* C18 as stated: get_file_stats on a missing path returns the zeroed result
\* and makes no file; a call that fails after os.stat, the file gone or
\* unreadable by then, returns the result with the error description.
C18_StatsNeverRaises ==
  [][/\ StatOfAbsent
     /\ \A p \in Procs :
          (pc[p] = "s_count" /\ pc'[p] = "idle") =>
            /\ result'[p].kind \in {"stats", "stats_error"}
            /\ (~exists \/ faults' # faults) => result'[p].kind = "stats_error"]_vars

\* C18: get_file_stats on a missing path returns the zeroed result and makes
\* no file; when the file is gone after os.stat it returns that same zeroed
\* result; when the file is there and unreadable it returns the result with
\* the error description; it returns one of the three results on every path.
C18_StatsAbsentOrError ==
  [][/\ StatOfAbsent
     /\ \A p \in Procs :
          (pc[p] = "s_count" /\ pc'[p] = "idle") =>
            /\ result'[p].kind \in {"stats", "stats_error", "absent"}
            /\ ~exists =>
                 /\ result'[p].kind = "absent"
                 /\ result'[p].size = 0
                 /\ result'[p].lines = 0
                 /\ ~exists'
            /\ (exists /\ faults' # faults) => result'[p].kind = "stats_error"
            /\ (exists /\ faults' = faults) => result'[p].kind = "stats"]_vars

\* A get_file_stats saw the file at os.stat and returned the zeroed result:
\* the file was gone at the open.
C18_Witness ==
  \E p \in Procs :
    /\ pc[p] = "idle"
    /\ result[p].kind = "absent"
    /\ statSize[p] > 0
    /\ ~exists

\* C19: read_memory_file on a missing file returns the not-found message
\* and makes no file; the message of any other failure is not the not-found
\* message; and no content that a read returns is either of the two.
C19_ReadResultsDistinct ==
  [][\A p \in Procs :
       /\ (result'[p].kind = "not_found" /\ result[p].kind # "not_found") =>
            (~exists /\ ~exists')
       /\ \A v \in ReadReturns(result'[p]) :
            /\ result'[p].kind = "read_error" => v # NotFoundMessage
            /\ result'[p].kind = "content" =>
                 /\ v # NotFoundMessage
                 /\ v \notin ReadReturns(Returned("read_error"))]_vars

\* A read found no file, returned, and there is still no file.
C19_Witness ==
  \E p \in Procs :
    /\ pc[p] = "idle"
    /\ result[p].kind = "not_found"
    /\ ~exists

\* The routes and tools behind a gate.
Authenticated == RestEndpoints \cup McpTools

\* C20: a request to a gated route that was answered 403 or 429 called no
\* store operation; a request with a wrong or missing key is answered 403,
\* one that check_rate_limit denied 429; and a request that reaches its
\* endpoint or has called a store operation carries the configured key and
\* its own check_rate_limit call returned true for its address.
C20_AdmissionGatesStore ==
  \A r \in Reqs :
    LET q == req[r]
    IN  q.ep \in Authenticated =>
          /\ q.status \in {403, 429} => (q.ops = <<>> /\ q.stage = "done")
          /\ q.key # "valid" => q.status = 403
          /\ (q.call > 0 /\ ~calls[q.call].ok) => q.status = 429
          /\ (q.stage = "admitted" \/ q.ops # <<>>) =>
               /\ q.key = "valid"
               /\ q.call \in 1..Len(calls)
               /\ calls[q.call].ip = q.ip
               /\ calls[q.call].ok

\* One request of an address was admitted and appended to the store, the
\* next one of the same address was denied and answered 429.
C20_Witness ==
  \E r1, r2 \in Reqs :
    /\ req[r1].ep \in Authenticated
    /\ req[r1].status = 200
    /\ "append" \in {req[r1].ops[k] : k \in 1..Len(req[r1].ops)}
    /\ audit.WRITE > 0
    /\ req[r2].ep \in Authenticated
    /\ req[r2].ip = req[r1].ip
    /\ req[r2].status = 429
    /\ req[r2].ops = <<>>

\* C21: the entries of the successful appends carry non-decreasing
\* timestamps in file order (the clock never goes back), as they would if
\* each timestamp were read while its appender holds the exclusive lock.
C21_TimestampsOrdered ==
  \A i, j \in 1..Len(Accepted) : i < j => Accepted[i].ts <= Accepted[j].ts

\* C22: the entries are in the file in the order in which their appends were
\* granted the exclusive lock (hence an append that returned before another
\* was called has its entry first).
C22_LockOrder ==
  \A i, j \in 1..Len(written) : i < j => written[i].grant < written[j].grant

\* The places of the file where a header block starts.
HeaderBlocks(s) ==
  {i \in 0..(Len(s) - Len(HEADER)) : SubSeq(s, i + 1, i + Len(HEADER)) = HEADER}

InitPcs == {"i_open", "i_write"}

\* C23: init_memory_file running in several contexts on a missing file, with
\* appends in between, never truncates the file once it exists: the file
\* never holds more than one header block, and (when no append met an
\* OSError) every entry an append wrote with success is in the file.
C23_InitAtomic ==
  /\ Cardinality(HeaderBlocks(content)) <= 1
  /\ ~appendFaulted => \A i \in 1..Len(Accepted) : Contains(content, Accepted[i].text)

\* C24: whenever the file exists (and no init_memory_file is between its
\* open and its write), the content begins with the header.
C24_HeaderFirst ==
  (exists /\ \A p \in Procs : pc[p] \notin InitPcs) => IsPrefix(HEADER, content)

LockedPcs == {"a_flush", "a_unlock", "a_raise"}

\* C25: a context holds the exclusive lock only between the flock of an
\* append whose body passed validation and whose file is open and the unlock
\* of its finally clause; it holds the shared lock only while it reads; and
\* it holds no lock before the call, during validation, while the file is
\* opened or closed, or after the operation returned, whatever it returned.
C25_LockScope ==
  \A p \in Procs :
    /\ lock[p] = "ex" =>
         /\ pc[p] \in LockedPcs
         /\ ~WhitespaceOnly(rule[p])
         /\ Len(rule[p]) <= MAX_RULE_SIZE
         /\ exists
    /\ lock[p] = "sh" => pc[p] = "r_read"
    /\ pc[p] \notin (LockedPcs \cup {"r_read"}) => lock[p] = "none"

\* An append wrote under the lock, met the OSError and returned the write
\* error holding no lock: another appender holds the exclusive lock now.
C25_Witness ==
  \E p, q \in Procs :
    /\ AppendReturned(p)
    /\ result[p].kind = "write_error"
    /\ wrote[p] > 0
    /\ lock[p] = "none"
    /\ lock[q] = "ex"

\* C26: every step in which an append puts characters in the file is taken
\* while that appender holds the exclusive lock.
C26_WritesUnderLock ==
  [][\A p \in Procs : wrote'[p] > wrote[p] => lock[p] = "ex"]_vars

\* C27: a read that asks for the shared lock while no other context holds
\* the exclusive lock can be granted it at once, whoever holds shared locks.
C27_ReadersShare ==
  \A p \in Procs :
    (pc[p] = "r_lock" /\ \A q \in Procs \ {p} : lock[q] # "ex")
      => ENABLED (ReadLock(p) /\ lock'[p] = "sh")

\* Two reads hold the shared lock at the same time.
C27_Witness ==
  \E p, q \in Procs : p # q /\ lock[p] = "sh" /\ lock[q] = "sh"

\* C28: when the appends that ran all returned success, every rendered entry
\* holds one newline, its first character, and the line count get_file_stats
\* computes is that of the initial content plus one per entry.
C28_OneLinePerAppend ==
  (NoAppendRunning /\ ~appendFaulted)
    => /\ \A i \in 1..Len(written) :
            CountNewlines(UniversalNewlines(written[i].text)) = 1
       /\ LineCount(content) = LineCount(InitialContent(0)) + Len(written)

\* The trimmed body a rendered entry ends with.
EntryBody(e) == SubSeq(e.text, Len(FormatRule(e.ts, <<>>)) + 1, Len(e.text))

\* C29: when no append met an OSError, the text a read returns contains,
\* character for character, the trimmed body of every append that had
\* returned success when the read began.
C29_RoundTrip ==
  \A p \in Procs :
    (result[p].kind = "content" /\ ~appendFaulted)
      => \A i \in 1..readFrom[p] : Contains(result[p].text, EntryBody(Accepted[i]))

\* C30: an append whose raw body is longer than the maximum returns the size
\* error with nothing written.
C30_RawLengthAlways ==
  \A p \in Procs :
    (AppendReturned(p) /\ Len(rule[p]) > MAX_RULE_SIZE)
      => result[p].kind = "size" /\ wrote[p] = 0 /\ buf[p] = <<>>

\* C30 as amended: an append whose raw body is not blank and is longer than
\* the maximum returns the size error with nothing written and nothing
\* pending, whatever the length of the trimmed body.
C30_RawLengthNonBlank ==
  \A p \in Procs :
    (AppendReturned(p) /\ ~WhitespaceOnly(rule[p]) /\ Len(rule[p]) > MAX_RULE_SIZE)
      => result[p].kind = "size" /\ wrote[p] = 0 /\ buf[p] = <<>>

\* A body longer than the maximum whose trimmed form is within it met the
\* size error, and the file is as it was initialized.
C30_Witness ==
  \E p \in Procs :
    /\ AppendReturned(p)
    /\ Len(rule[p]) > MAX_RULE_SIZE
    /\ Strip(rule[p]) # <<>>
    /\ Len(Strip(rule[p])) <= MAX_RULE_SIZE
    /\ result[p].kind = "size"
    /\ content = InitialContent(0)
    /\ audit.REJECTED = 1

\* What every rendered entry begins with, and where entries begin in s.
EntryMark == SubSeq(FormatRule(0, <<>>), 1, 4)
EntryMarks(s) ==
  {i \in 0..(Len(s) - Len(EntryMark)) : SubSeq(s, i + 1, i + Len(EntryMark)) = EntryMark}

\* Context p returns from an append with result kind k in this step: from
\* the call itself, or from a later step of the operation.
AppendReturns(p, k) ==
  /\ pc'[p] = "idle"
  /\ result'[p].kind = k
  /\ pc[p] \in AppendPcs \/ \E r \in Bodies : AppendCall(p, r)

\* C31: a step in which an append returns success logs one WRITE record, and
\* the whole entry was flushed before; a step in which an append returns the
\* size error logs one REJECTED record and no WRITE record; no other step
\* logs a WRITE record; and the file holds at least as many entries as WRITE
\* records were logged.
C31_AuditTrail ==
  [][/\ \A p \in Procs :
          /\ AppendReturns(p, "success") =>
                /\ audit'.WRITE = audit.WRITE + 1
                /\ audit'.REJECTED = audit.REJECTED
                /\ buf[p] = <<>>
                /\ wrote[p] = Len(FormatRule(stamp[p], rule[p]))
          /\ AppendReturns(p, "size") =>
                /\ audit'.REJECTED = audit.REJECTED + 1
                /\ audit'.WRITE = audit.WRITE
     /\ audit'.WRITE # audit.WRITE => \E p \in Procs : AppendReturns(p, "success")
     /\ audit'.WRITE <= Cardinality(EntryMarks(content'))]_vars

\* The admitted calls of address ip that are younger than the window at now.
LiveAdmissions(ip, now) ==
  {k \in 1..Len(calls) :
     calls[k].ip = ip /\ calls[k].ok /\ now - calls[k].at < RATE_LIMIT_WINDOW}

\* C32: a check_rate_limit call for one address leaves the key and the list
\* of every other address as they were, and it returns true exactly when
\* fewer than the limit of that address's own earlier admissions are younger
\* than the window, whatever the other addresses did.
C32_IdentitiesIsolated ==
  [][Len(calls') > Len(calls) =>
       LET c == calls'[Len(calls')]
       IN  /\ \A b \in Ids \ {c.ip} :
                /\ (b \in DOMAIN rate_limit_store') = (b \in DOMAIN rate_limit_store)
                /\ b \in DOMAIN rate_limit_store => rate_limit_store'[b] = rate_limit_store[b]
           /\ c.ok = (Cardinality(LiveAdmissions(c.ip, c.at)) < RATE_LIMIT_REQUESTS)]_vars

\* One address was denied at its limit and, at the same instant, another
\* address was admitted.
C32_Witness ==
  \E i, j \in 1..Len(calls) :
    /\ i < j
    /\ calls[i].ip # calls[j].ip
    /\ calls[i].at = calls[j].at
    /\ RATE_LIMIT_REQUESTS >= 1
    /\ ~calls[i].ok
    /\ calls[j].ok

\* The requests of address ip, through either gate, that were admitted less
\* than a window ago.
LiveRequests(ip) ==
  {r \in Reqs :
     /\ req[r].ep \in RestEndpoints \cup McpTools
     /\ req[r].ip = ip
     /\ req[r].call > 0
     /\ calls[req[r].call].ok
     /\ time - calls[req[r].call].at < RATE_LIMIT_WINDOW}

\* C33: of the requests of one address, through the REST routes and the MCP
\* middleware together, never more than the limit have been admitted within
\* the last window.
C33_OneQuota ==
  \A ip \in Ids : Cardinality(LiveRequests(ip)) <= RATE_LIMIT_REQUESTS

\* A request to a REST route used up the quota of its address, and a request
\* of that address to an MCP tool in the same window was denied.
C33_Witness ==
  \E r1, r2 \in Reqs :
    /\ req[r1].ep \in RestEndpoints
    /\ r1 \in LiveRequests(req[r1].ip)
    /\ req[r2].ep \in McpTools
    /\ req[r2].ip = req[r1].ip
    /\ req[r2].status = 429
    /\ req[r2].call > req[r1].call

\* C34: a request to a REST route or an MCP tool that carries a wrong key or
\* none is answered 403, and the step that answers it leaves the limiter's
\* store as it was and calls check_rate_limit not at all, however many
\* requests of its address were admitted before.
C34_KeyBeforeLimit ==
  [][\A r \in Reqs :
       ( /\ req[r].stage = "new"
         /\ req'[r].stage # "new"
         /\ req'[r].key \in {"invalid", "missing"} )
       => /\ req'[r].status = 403
          /\ req'[r].stage = "done"
          /\ rate_limit_store' = rate_limit_store
          /\ calls' = calls]_vars

\* An address had used up its quota, and its next request, with a wrong key
\* or none, was answered 403.
C34_Witness ==
  \E r1, r2 \in Reqs :
    /\ r1 < r2
    /\ RATE_LIMIT_REQUESTS >= 1
    /\ r1 \in LiveRequests(req[r1].ip)
    /\ Cardinality(LiveRequests(req[r1].ip)) = RATE_LIMIT_REQUESTS
    /\ req[r2].ip = req[r1].ip
    /\ req[r2].key \in {"invalid", "missing"}
    /\ req[r2].status = 403

\* C35: the size and the line count of a get_file_stats result are those of
\* one state the file had.  The initialized file only grows, so every state
\* it had is a prefix of its content.
C35_StatsConsistent ==
  \A p \in Procs :
    result[p].kind = "stats"
      => \E n \in 0..Len(content) :
           /\ Utf8Len(SubSeq(content, 1, n)) = result[p].size
           /\ LineCount(SubSeq(content, 1, n)) = result[p].lines

\* C36: every read and every append that has started returns.
C36_Progress == \A p \in Procs : (pc[p] # "idle") ~> (pc[p] = "idle")

\* An appender waits for the exclusive lock while a reader holds the shared
\* lock.
C36_Witness ==
  \E p, q \in Procs : pc[p] = "a_lock" /\ lock[q] = "sh" /\ pc[q] = "r_read"

\* The positions inside backup_to_gdrive.
GdrivePcs == {"g_check", "g_service", "g_upload"}

\* C37: in a backup job, a step deletes a backup at a destination only when
\* this run's upload to that destination has succeeded: the job's success
\* flag of the destination is set and the backup of this run is stored
\* there.  So a run whose upload to a destination failed or was skipped
\* deletes nothing there.
C37_CleanupAfterSuccess ==
  [][job.cmd = "backup" =>
       /\ (\E f \in drive : f \notin drive') =>
            job.gdrive_success /\ job.file_id = NewId /\ NewId \in drive
       /\ (\E f \in bucket : f \notin bucket') =>
            job.s3_success /\ job.s3_key = NewId /\ NewId \in bucket]_vars

\* A job whose Drive upload failed, with old backups on Drive that are all
\* still there, and whose S3 upload succeeded and was followed by the
\* deletion of an old S3 backup.
C37_Witness ==
  /\ job.cmd = "backup"
  /\ job.include_gdrive /\ PARENT_FOLDER_ID /\ job.contacted
  /\ ~job.gdrive_success
  /\ job.drive0 # {} /\ drive = job.drive0
  /\ job.s3_success
  /\ job.bucket0 \ bucket # {}

\* C38: when backup_to_gdrive returns, it has not raised; a file id is
\* returned only if this call uploaded the file, which is then in the
\* folder; and if the folder id is not set or the memory file does not
\* exist, None is returned and the Drive service was not contacted.
C38_GdriveReturns ==
  [][(job.pc \in GdrivePcs /\ job'.pc \notin GdrivePcs) =>
       /\ ~job'.raised
       /\ job'.ret # 0 => job'.uploaded /\ job'.ret \in drive'
       /\ ~job'.uploaded => job'.ret = 0
       /\ (~PARENT_FOLDER_ID \/ ~exists) =>
            job'.ret = 0 /\ ~job'.contacted /\ drive' = drive]_vars

\* The command "gdrive" has returned None without a folder id, the memory
\* file being there, and the Drive service was not contacted.
C38_Witness ==
  /\ job.cmd = "gdrive"
  /\ job.pc = "idle"
  /\ ~PARENT_FOLDER_ID
  /\ exists
  /\ job.ret = 0
  /\ ~job.contacted

====
